---------------------------- MODULE Spec2Model ----------------------------
(***************************************************************************)
(* The TFTP wire-format codec of tftp/datagram.py: opcode extraction, the  *)
(* five datagram classes with their from_wire / to_wire methods, the error *)
(* code registry and the datagram factory.                                 *)
(*                                                                         *)
(* A byte string (a Python 2 str) is a sequence of integers in 0..255.     *)
(* The outcome of a call is a record: [ok |-> TRUE, val |-> v] for a       *)
(* return of v, or [ok |-> FALSE, exc |-> [cls |-> C, args |-> a]] for a   *)
(* raise of class C with the argument tuple a.  A datagram object is a     *)
(* record holding its class name and its instance attributes.              *)
(***************************************************************************)
EXTENDS Integers, Sequences, FiniteSets, TLC

VARIABLES pc, fn, arg, res, wire, back

vars == <<pc, fn, arg, res, wire, back>>

---------------------------------------------------------------------------
(* Bounds of the explored inputs.                                          *)

\* longest payload handed to a from_wire method or to the factory
MaxLen == 5
\* longest filename, mode, data or errmsg handed to a constructor
MaxField == 2

\* the byte values payloads and fields are drawn from: NUL, a non-letter,
\* an upper-case letter 'A' and a lower-case letter 'a'
Byte == {0, 1, 65, 97}
\* the bytes of the two-byte header of a raw datagram
HeaderHi == {0, 1}
HeaderLo == {0, 1, 2, 3, 4, 5, 6, 17}

RECURSIVE SeqsUpTo(_, _)
SeqsUpTo(S, n) ==
    IF n = 0 THEN {<<>>}
    ELSE LET shorter == SeqsUpTo(S, n - 1)
         IN  shorter \cup {Append(s, b) : s \in {t \in shorter : Len(t) = n - 1}, b \in S}

Payloads == SeqsUpTo(Byte, MaxLen)
Fields == SeqsUpTo(Byte, MaxField)
Datagrams ==
    SeqsUpTo(Byte, 1) \cup {<<hi, lo>> \o p : hi \in HeaderHi, lo \in HeaderLo, p \in Payloads}
BlockNums == {0, 1, 10, 256, 65535}
OpcodeArgs == {0, 1, 2, 3, 4, 5, 6, 17, 256, 65535}
ErrorcodeArgs == {0, 1, 2, 3, 4, 5, 6, 7, 8, 13, 14, 256, 65535}

---------------------------------------------------------------------------
(* Python and struct primitives used by the module.                        *)

NUL == 0

Ok(v) == [ok |-> TRUE, val |-> v]
Raise(cls, args) == [ok |-> FALSE, exc |-> [cls |-> cls, args |-> args]]

\* s[:n]
Prefix(s, n) == SubSeq(s, 1, IF Len(s) < n THEN Len(s) ELSE n)
\* s[n:]
Suffix(s, n) == SubSeq(s, n + 1, Len(s))

\* struct.unpack("!H", s): a 1-tuple holding the big-endian value of exactly
\* two bytes; struct.error for any other length
unpack_H(s) ==
    IF Len(s) = 2 THEN Ok(<<s[1] * 256 + s[2]>>) ELSE Raise("struct.error", <<>>)

\* struct.pack("!H", n) for n in 0..65535
pack_H(n) == <<n \div 256, n % 256>>
\* struct.pack("!HH", m, n)
pack_HH(m, n) == pack_H(m) \o pack_H(n)

\* str.split(sep) with a one-byte separator: the list of the fields between
\* the separators, always at least one field
RECURSIVE split(_, _)
split(s, sep) ==
    IF \A i \in 1..Len(s) : s[i] # sep THEN <<s>>
    ELSE LET i == CHOOSE k \in 1..Len(s) : s[k] = sep /\ \A j \in 1..(k - 1) : s[j] # sep
         IN  <<SubSeq(s, 1, i - 1)>> \o split(SubSeq(s, i + 1, Len(s)), sep)

\* str.lower(): 'A'..'Z' become 'a'..'z', every other byte is kept
lower(s) == [i \in 1..Len(s) |-> IF s[i] >= 65 /\ s[i] <= 90 THEN s[i] + 32 ELSE s[i]]

---------------------------------------------------------------------------
(* Module constants.                                                       *)

OP_RRQ == 1
OP_WRQ == 2
OP_DATA == 3
OP_ACK == 4
OP_ERROR == 5

ERR_NOT_DEFINED == 0
ERR_FILE_NOT_FOUND == 1
ERR_ACCESS_VIOLATION == 2
ERR_DISK_FULL == 3
ERR_ILLEGAL_OP == 4
ERR_TID_UNKNOWN == 5
ERR_FILE_EXISTS == 6
ERR_NO_SUCH_USER == 7

errors ==
    (ERR_NOT_DEFINED :> <<>>)
    @@ (ERR_FILE_NOT_FOUND :>
          <<70, 105, 108, 101, 32, 110, 111, 116, 32, 102, 111, 117, 110, 100>>)
    @@ (ERR_ACCESS_VIOLATION :>
          <<65, 99, 99, 101, 115, 115, 32, 118, 105, 111, 108, 97, 116, 105, 111, 110>>)
    @@ (ERR_DISK_FULL :>
          <<68, 105, 115, 107, 32, 102, 117, 108, 108, 32, 111, 114, 32, 97, 108,
            108, 111, 99, 97, 116, 105, 111, 110, 32, 101, 120, 99, 101, 101, 100,
            101, 100>>)
    @@ (ERR_ILLEGAL_OP :>
          <<73, 108, 108, 101, 103, 97, 108, 32, 84, 70, 84, 80, 32, 111, 112, 101,
            114, 97, 116, 105, 111, 110>>)
    @@ (ERR_TID_UNKNOWN :>
          <<85, 110, 107, 110, 111, 119, 110, 32, 116, 114, 97, 110, 115, 102, 101,
            114, 32, 73, 68>>)
    @@ (ERR_FILE_EXISTS :>
          <<70, 105, 108, 101, 32, 97, 108, 114, 101, 97, 100, 121, 32, 101, 120,
            105, 115, 116, 115>>)
    @@ (ERR_NO_SUCH_USER :>
          <<78, 111, 32, 115, 117, 99, 104, 32, 117, 115, 101, 114>>)

---------------------------------------------------------------------------
(* split_opcode                                                            *)

\* split_opcode unpacking the whole datagram instead of datagram[:2]
split_opcode_noslice(datagram) ==
    LET u == unpack_H(datagram)
    IN  IF u.ok THEN Ok(<<u.val[1], Suffix(datagram, 2)>>)
        ELSE Raise("WireProtocolError", <<"Failed to extract the opcode">>)
split_opcode(datagram) ==
    LET u == unpack_H(Prefix(datagram, 2))
    IN  IF u.ok THEN Ok(<<u.val[1], Suffix(datagram, 2)>>)
        ELSE Raise("WireProtocolError", <<"Failed to extract the opcode">>)

---------------------------------------------------------------------------
(* The datagram classes.                                                   *)

\* the class attribute opcode of the concrete classes
opcode(cls) ==
    CASE cls = "RRQDatagram" -> OP_RRQ
      [] cls = "WRQDatagram" -> OP_WRQ
      [] cls = "DATADatagram" -> OP_DATA
      [] cls = "ACKDatagram" -> OP_ACK
      [] cls = "ERRORDatagram" -> OP_ERROR

RQDatagram_init(cls, filename, mode) ==
    [cls |-> cls, filename |-> filename, mode |-> lower(mode)]

\* from_wire taking the last field, not the second, as the mode
RQDatagram_from_wire_last(cls, payload) ==
    LET parts == split(payload, NUL)
    IN  IF Len(parts) >= 2 THEN Ok(RQDatagram_init(cls, parts[1], parts[Len(parts)]))
        ELSE Raise("PayloadDecodeError", <<"Not enough fields in the payload">>)
RQDatagram_from_wire(cls, payload) ==
    LET parts == split(payload, NUL)
    IN  IF Len(parts) >= 2 THEN Ok(RQDatagram_init(cls, parts[1], parts[2]))
        ELSE Raise("PayloadDecodeError", <<"Not enough fields in the payload">>)

\* to_wire without the NUL between filename and mode
RQDatagram_to_wire_nosep(self) ==
    pack_H(opcode(self.cls)) \o self.filename \o self.mode \o <<NUL>>
RQDatagram_to_wire(self) ==
    pack_H(opcode(self.cls)) \o self.filename \o <<NUL>> \o self.mode \o <<NUL>>

DATADatagram_init(blocknum, data) ==
    [cls |-> "DATADatagram", blocknum |-> blocknum, data |-> data]

\* from_wire unpacking the whole payload instead of payload[:2]
DATADatagram_from_wire_strict(payload) ==
    LET u == unpack_H(payload)
    IN  IF u.ok THEN Ok(DATADatagram_init(u.val[1], Suffix(payload, 2)))
        ELSE Raise("PayloadDecodeError", <<>>)
DATADatagram_from_wire(payload) ==
    LET u == unpack_H(Prefix(payload, 2))
    IN  IF u.ok THEN Ok(DATADatagram_init(u.val[1], Suffix(payload, 2)))
        ELSE Raise("PayloadDecodeError", <<>>)

DATADatagram_to_wire(self) == pack_HH(opcode(self.cls), self.blocknum) \o self.data

ACKDatagram_init(blocknum) == [cls |-> "ACKDatagram", blocknum |-> blocknum]

\* from_wire unpacking payload[:2], as the DATA parser does
ACKDatagram_from_wire_lenient(payload) ==
    LET u == unpack_H(Prefix(payload, 2))
    IN  IF u.ok THEN Ok(ACKDatagram_init(u.val[1]))
        ELSE Raise("PayloadDecodeError", <<"Unable to extract the block number">>)
ACKDatagram_from_wire(payload) ==
    LET u == unpack_H(payload)
    IN  IF u.ok THEN Ok(ACKDatagram_init(u.val[1]))
        ELSE Raise("PayloadDecodeError", <<"Unable to extract the block number">>)

ACKDatagram_to_wire(self) == pack_HH(opcode(self.cls), self.blocknum)

ERRORDatagram_init(errorcode, errmsg) ==
    [cls |-> "ERRORDatagram", errorcode |-> errorcode, errmsg |-> errmsg]

\* from_wire without the substitution of the default message
ERRORDatagram_from_wire_nodefault(payload) ==
    LET u == unpack_H(Prefix(payload, 2))
    IN  IF ~u.ok THEN Raise("PayloadDecodeError", <<"Unable to extract the error code">>)
        ELSE LET errorcode == u.val[1]
             IN  IF errorcode \notin DOMAIN errors
                 THEN Raise("InvalidErrorcodeError", <<errorcode>>)
                 ELSE Ok(ERRORDatagram_init(errorcode, split(Suffix(payload, 2), NUL)[1]))
\* from_wire keeping all of payload[2:] as the message
ERRORDatagram_from_wire_nosplit(payload) ==
    LET u == unpack_H(Prefix(payload, 2))
    IN  IF ~u.ok THEN Raise("PayloadDecodeError", <<"Unable to extract the error code">>)
        ELSE LET errorcode == u.val[1]
                 errmsg == Suffix(payload, 2)
             IN  IF errorcode \notin DOMAIN errors
                 THEN Raise("InvalidErrorcodeError", <<errorcode>>)
                 ELSE Ok(ERRORDatagram_init(errorcode,
                            IF errmsg = <<>> THEN errors[errorcode] ELSE errmsg))
\* from_wire without the check of the code against the registry
ERRORDatagram_from_wire_unchecked(payload) ==
    LET u == unpack_H(Prefix(payload, 2))
    IN  IF ~u.ok THEN Raise("PayloadDecodeError", <<"Unable to extract the error code">>)
        ELSE LET errorcode == u.val[1]
                 errmsg == split(Suffix(payload, 2), NUL)[1]
             IN  Ok(ERRORDatagram_init(errorcode,
                        IF errmsg = <<>> /\ errorcode \in DOMAIN errors
                        THEN errors[errorcode] ELSE errmsg))
ERRORDatagram_from_wire(payload) ==
    LET u == unpack_H(Prefix(payload, 2))
    IN  IF ~u.ok THEN Raise("PayloadDecodeError", <<"Unable to extract the error code">>)
        ELSE LET errorcode == u.val[1]
                 errmsg == split(Suffix(payload, 2), NUL)[1]
             IN  IF errorcode \notin DOMAIN errors
                 THEN Raise("InvalidErrorcodeError", <<errorcode>>)
                 ELSE Ok(ERRORDatagram_init(errorcode,
                            IF errmsg = <<>> THEN errors[errorcode] ELSE errmsg))

\* from_code testing `not errmsg` instead of `errmsg is None`
ERRORDatagram_from_code_falsy(errorcode, errmsg) ==
    IF errorcode \notin DOMAIN errors THEN Raise("InvalidErrorcodeError", <<errorcode>>)
    ELSE Ok(ERRORDatagram_init(errorcode,
                IF errmsg = <<>> \/ errmsg = << <<>> >> THEN errors[errorcode] ELSE errmsg[1]))
\* errmsg is an optional argument: <<>> when it is omitted (None), <<m>> when
\* the byte string m is passed
ERRORDatagram_from_code(errorcode, errmsg) ==
    IF errorcode \notin DOMAIN errors THEN Raise("InvalidErrorcodeError", <<errorcode>>)
    ELSE Ok(ERRORDatagram_init(errorcode,
                IF errmsg = <<>> THEN errors[errorcode] ELSE errmsg[1]))

ERRORDatagram_to_wire(self) ==
    pack_HH(opcode(self.cls), self.errorcode) \o self.errmsg \o <<NUL>>

\* the method to_wire of a datagram object, resolved by its class
to_wire(self) ==
    CASE self.cls \in {"RRQDatagram", "WRQDatagram"} -> RQDatagram_to_wire(self)
      [] self.cls = "DATADatagram" -> DATADatagram_to_wire(self)
      [] self.cls = "ACKDatagram" -> ACKDatagram_to_wire(self)
      [] self.cls = "ERRORDatagram" -> ERRORDatagram_to_wire(self)

\* the method from_wire of a datagram class
from_wire(cls, payload) ==
    CASE cls \in {"RQDatagram", "RRQDatagram", "WRQDatagram"} -> RQDatagram_from_wire(cls, payload)
      [] cls = "DATADatagram" -> DATADatagram_from_wire(payload)
      [] cls = "ACKDatagram" -> ACKDatagram_from_wire(payload)
      [] cls = "ERRORDatagram" -> ERRORDatagram_from_wire(payload)

---------------------------------------------------------------------------
(* The factory.                                                            *)

dgram_classes ==
    (OP_RRQ :> "RRQDatagram") @@ (OP_WRQ :> "WRQDatagram") @@ (OP_DATA :> "DATADatagram")
    @@ (OP_ACK :> "ACKDatagram") @@ (OP_ERROR :> "ERRORDatagram")

\* the factory re-raising a from_wire failure as a bare WireProtocolError
TFTPDatagramFactory_wrapping(opcode_, payload) ==
    IF opcode_ \notin DOMAIN dgram_classes THEN Raise("InvalidOpcodeError", <<opcode_>>)
    ELSE LET r == from_wire(dgram_classes[opcode_], payload)
         IN  IF r.ok THEN r ELSE Raise("WireProtocolError", <<>>)
TFTPDatagramFactory(opcode_, payload) ==
    IF opcode_ \notin DOMAIN dgram_classes THEN Raise("InvalidOpcodeError", <<opcode_>>)
    ELSE from_wire(dgram_classes[opcode_], payload)

\* the factory applied to the pair split_opcode returns: the decoding of a raw
\* datagram
decode(datagram) ==
    LET s == split_opcode(datagram)
    IN  IF s.ok THEN TFTPDatagramFactory(s.val[1], s.val[2]) ELSE s

---------------------------------------------------------------------------
(* The calls a user of the module makes.  pc = "idle": nothing was called; *)
(* "returned": fn(arg) ended with res; "serialized": wire is to_wire() of  *)
(* the datagram in res; "redecoded": back is the decoding of wire.         *)

None == <<>>

Init ==
    /\ pc = "idle"
    /\ fn = "none"
    /\ arg = None
    /\ res = None
    /\ wire = None
    /\ back = None

Return(f, a, r) ==
    /\ pc' = "returned"
    /\ fn' = f
    /\ arg' = a
    /\ res' = r
    /\ UNCHANGED <<wire, back>>

CallSplitOpcode ==
    /\ pc = "idle"
    /\ \E datagram \in Datagrams :
           Return("split_opcode", [datagram |-> datagram], split_opcode(datagram))

CallDecode ==
    /\ pc = "idle"
    /\ \E datagram \in Datagrams :
           Return("decode", [datagram |-> datagram], decode(datagram))

CallFactory ==
    /\ pc = "idle"
    /\ \E opcode_ \in OpcodeArgs, payload \in Payloads :
           Return("TFTPDatagramFactory", [opcode |-> opcode_, payload |-> payload],
                  TFTPDatagramFactory(opcode_, payload))

CallRQFromWire ==
    /\ pc = "idle"
    /\ \E cls \in {"RQDatagram", "RRQDatagram", "WRQDatagram"}, payload \in Payloads :
           Return("RQDatagram.from_wire", [cls |-> cls, payload |-> payload],
                  RQDatagram_from_wire(cls, payload))

CallDATAFromWire ==
    /\ pc = "idle"
    /\ \E payload \in Payloads :
           Return("DATADatagram.from_wire", [payload |-> payload],
                  DATADatagram_from_wire(payload))

CallACKFromWire ==
    /\ pc = "idle"
    /\ \E payload \in Payloads :
           Return("ACKDatagram.from_wire", [payload |-> payload],
                  ACKDatagram_from_wire(payload))

CallERRORFromWire ==
    /\ pc = "idle"
    /\ \E payload \in Payloads :
           Return("ERRORDatagram.from_wire", [payload |-> payload],
                  ERRORDatagram_from_wire(payload))

CallERRORFromCode ==
    /\ pc = "idle"
    /\ \E errorcode \in ErrorcodeArgs, errmsg \in {<<>>} \cup {<<m>> : m \in Fields} :
           Return("ERRORDatagram.from_code", [errorcode |-> errorcode, errmsg |-> errmsg],
                  ERRORDatagram_from_code(errorcode, errmsg))

NewRQ ==
    /\ pc = "idle"
    /\ \E cls \in {"RRQDatagram", "WRQDatagram"}, filename \in Fields, mode \in Fields :
           Return("RQDatagram", [cls |-> cls, filename |-> filename, mode |-> mode],
                  Ok(RQDatagram_init(cls, filename, mode)))

NewDATA ==
    /\ pc = "idle"
    /\ \E blocknum \in BlockNums, data \in Fields :
           Return("DATADatagram", [blocknum |-> blocknum, data |-> data],
                  Ok(DATADatagram_init(blocknum, data)))

NewACK ==
    /\ pc = "idle"
    /\ \E blocknum \in BlockNums :
           Return("ACKDatagram", [blocknum |-> blocknum], Ok(ACKDatagram_init(blocknum)))

NewERROR ==
    /\ pc = "idle"
    /\ \E errorcode \in ErrorcodeArgs, errmsg \in Fields :
           Return("ERRORDatagram", [errorcode |-> errorcode, errmsg |-> errmsg],
                  Ok(ERRORDatagram_init(errorcode, errmsg)))

\* the calls that return a datagram object
DatagramSources ==
    {"decode", "TFTPDatagramFactory", "RQDatagram.from_wire", "DATADatagram.from_wire",
     "ACKDatagram.from_wire", "ERRORDatagram.from_wire", "ERRORDatagram.from_code",
     "RQDatagram", "DATADatagram", "ACKDatagram", "ERRORDatagram"}

\* to_wire() of the datagram just obtained (the base class RQDatagram has no
\* opcode to pack)
ToWire ==
    /\ pc = "returned"
    /\ fn \in DatagramSources
    /\ res.ok
    /\ res.val.cls # "RQDatagram"
    /\ pc' = "serialized"
    /\ wire' = to_wire(res.val)
    /\ UNCHANGED <<fn, arg, res, back>>

\* the peer decodes what was serialized
Redecode ==
    /\ pc = "serialized"
    /\ pc' = "redecoded"
    /\ back' = decode(wire)
    /\ UNCHANGED <<fn, arg, res, wire>>

Next ==
    \/ CallSplitOpcode
    \/ CallDecode
    \/ CallFactory
    \/ CallRQFromWire
    \/ CallDATAFromWire
    \/ CallACKFromWire
    \/ CallERRORFromWire
    \/ CallERRORFromCode
    \/ NewRQ
    \/ NewDATA
    \/ NewACK
    \/ NewERROR
    \/ ToWire
    \/ Redecode

Spec == Init /\ [][Next]_vars


---------------------------------------------------------------------------
(* Vocabulary of the properties, stated on byte strings directly.          *)

\* the big-endian 16-bit value of the bytes hi, lo
BE16(hi, lo) == hi * 256 + lo
HasNul(s) == \E i \in 1..Len(s) : s[i] = 0
\* the index of the first NUL of s, Len(s) + 1 when it has none
FirstNul(s) ==
    IF HasNul(s) THEN CHOOSE i \in 1..Len(s) : s[i] = 0 /\ \A j \in 1..(i - 1) : s[j] # 0
    ELSE Len(s) + 1
\* the bytes before the first NUL (all of s when it has none)
BeforeNul(s) == SubSeq(s, 1, FirstNul(s) - 1)
\* the bytes after the first NUL
AfterNul(s) == SubSeq(s, FirstNul(s) + 1, Len(s))
LowerCased(s) == [i \in 1..Len(s) |-> IF s[i] \in 65..90 THEN s[i] + 32 ELSE s[i]]
Called(f) == pc # "idle" /\ fn = f
Constructors == {"RQDatagram", "DATADatagram", "ACKDatagram", "ERRORDatagram"}

---------------------------------------------------------------------------
(* split_opcode                                                            *)

\* C9: split_opcode fails (WireProtocolError, the spec's MalformedHeader) if
\* and only if the buffer is shorter than 2 bytes; otherwise it returns the
\* big-endian value of the first two bytes and the rest of the buffer, for
\* every 16-bit opcode value.
C9_SplitOpcode ==
    Called("split_opcode") =>
        LET b == arg.datagram
        IN  /\ ~res.ok <=> Len(b) < 2
            /\ ~res.ok => res.exc.cls = "WireProtocolError"
            /\ res.ok => res.val = <<BE16(b[1], b[2]), SubSeq(b, 3, Len(b))>>

\* an opcode outside 1..5 is split off a buffer of exactly two bytes
C9_Witness ==
    /\ Called("split_opcode")
    /\ Len(arg.datagram) = 2
    /\ res.ok
    /\ res.val[1] \notin 1..5
    /\ res.val[2] = <<>>

---------------------------------------------------------------------------
(* Data                                                                    *)

\* C8: DATADatagram.from_wire fails (PayloadDecodeError, the spec's
\* TruncatedFieldError) exactly when the payload has 0 or 1 bytes; otherwise
\* blocknum is the big-endian value of the first two bytes and data is the
\* rest, unaltered, and to_wire() of the result is 0x00 0x03 followed by the
\* payload.
C8_DataParse ==
    Called("DATADatagram.from_wire") =>
        LET p == arg.payload
        IN  /\ ~res.ok <=> Len(p) < 2
            /\ ~res.ok => res.exc.cls = "PayloadDecodeError"
            /\ res.ok => /\ res.val.blocknum = BE16(p[1], p[2])
                         /\ res.val.data = SubSeq(p, 3, Len(p))
                         /\ pc \in {"serialized", "redecoded"} => wire = <<0, 3>> \o p

\* data holding a NUL byte was parsed and serialized again
C8_Witness ==
    /\ Called("DATADatagram.from_wire")
    /\ pc = "serialized"
    /\ Len(res.val.data) >= 2
    /\ HasNul(res.val.data)
    /\ res.val.blocknum > 255

---------------------------------------------------------------------------
(* Requests                                                                *)

\* C5: RQDatagram.from_wire succeeds if and only if the payload holds a NUL;
\* otherwise it fails with PayloadDecodeError "Not enough fields in the
\* payload" (the spec's FieldCountError).  On success filename is the bytes
\* before the first NUL, mode is the lower-cased bytes between the first NUL
\* and the second (or the end), and the rest is ignored.
C5_RequestParse ==
    Called("RQDatagram.from_wire") =>
        LET p == arg.payload
        IN  /\ res.ok <=> HasNul(p)
            /\ ~res.ok => res.exc = [cls |-> "PayloadDecodeError",
                                     args |-> <<"Not enough fields in the payload">>]
            /\ res.ok => /\ res.val.cls = arg.cls
                         /\ res.val.filename = BeforeNul(p)
                         /\ res.val.mode = LowerCased(BeforeNul(AfterNul(p)))

\* an upper-case mode followed by a third field that no NUL terminates
C5_Witness ==
    /\ Called("RQDatagram.from_wire")
    /\ res.ok
    /\ LET p == arg.payload
       IN  /\ Len(p) = 5
           /\ p[1] # 0 /\ p[2] = 0 /\ p[3] = 65 /\ p[4] = 0 /\ p[5] # 0
    /\ res.val.mode = <<97>>

---------------------------------------------------------------------------
(* Acknowledgments                                                         *)

\* C3 as stated: a payload of exactly 2 bytes is accepted with its big-endian
\* value, a shorter one fails, and a longer one fails with an error kind
\* distinct from the kind a shorter one fails with.
C3_DistinctKinds ==
    Called("ACKDatagram.from_wire") =>
        LET p == arg.payload
        IN  /\ res.ok <=> Len(p) = 2
            /\ res.ok => res.val.blocknum = BE16(p[1], p[2])
            /\ Len(p) > 2 => res.exc.cls # ACKDatagram_from_wire(<<>>).exc.cls

\* C3 amended: a payload is accepted if and only if it has exactly 2 bytes,
\* with blocknum their big-endian value; a shorter and a longer payload fail
\* alike, with PayloadDecodeError "Unable to extract the block number".
C3_AckParse ==
    Called("ACKDatagram.from_wire") =>
        LET p == arg.payload
        IN  /\ res.ok <=> Len(p) = 2
            /\ res.ok => res.val = [cls |-> "ACKDatagram", blocknum |-> BE16(p[1], p[2])]
            /\ ~res.ok => res.exc = [cls |-> "PayloadDecodeError",
                                     args |-> <<"Unable to extract the block number">>]

\* a payload longer than 2 bytes was refused
C3_Witness ==
    /\ Called("ACKDatagram.from_wire")
    /\ Len(arg.payload) > 2
    /\ ~res.ok

---------------------------------------------------------------------------
(* Errors                                                                  *)

\* the message text an ERROR payload carries: the bytes after the code, up to
\* the first NUL
WireText(p) == BeforeNul(SubSeq(p, 3, Len(p)))
FromWireOrCode == {"ERRORDatagram.from_wire", "ERRORDatagram.from_code"}

\* C7: for a payload of at least 2 bytes whose first two bytes encode a
\* registry code c, ERRORDatagram.from_wire returns errorcode c and errmsg
\* the text up to the first NUL, or the registry default for c when that text
\* is empty; from_code(c) yields the registry default for c and from_code(c, m)
\* yields m.
C7_ErrorDefault ==
    /\ Called("ERRORDatagram.from_wire") =>
           LET p == arg.payload
           IN  (Len(p) >= 2 /\ BE16(p[1], p[2]) \in 0..7) =>
                   /\ res.ok
                   /\ res.val.errorcode = BE16(p[1], p[2])
                   /\ res.val.errmsg = IF WireText(p) = <<>> THEN errors[BE16(p[1], p[2])]
                                       ELSE WireText(p)
    /\ Called("ERRORDatagram.from_code") =>
           (arg.errorcode \in 0..7 =>
                /\ res.ok
                /\ res.val.errorcode = arg.errorcode
                /\ res.val.errmsg = IF arg.errmsg = <<>> THEN errors[arg.errorcode]
                                    ELSE arg.errmsg[1])

\* a NUL right after the code, followed by more bytes: the default is used
C7_Witness ==
    /\ Called("ERRORDatagram.from_wire")
    /\ Len(arg.payload) >= 4
    /\ arg.payload[3] = 0
    /\ arg.payload[4] # 0
    /\ res.ok
    /\ res.val.errorcode = 1
    /\ res.val.errmsg = errors[1]

\* C2 as stated: every Error message that from_wire or from_code returns has
\* an errmsg of length at least 1.
C2_NeverEmpty ==
    (pc # "idle" /\ fn \in FromWireOrCode /\ res.ok) => Len(res.val.errmsg) >= 1

\* C2 amended: the errmsg of an Error message that from_wire returns is empty
\* exactly when the code is 0 (whose registry default is the empty string)
\* and the text on the wire is empty; the errmsg that from_code returns is
\* empty exactly when the message is omitted and the code is 0, or the
\* message supplied is itself empty.
C2_EmptyOnlyByDefault ==
    /\ (Called("ERRORDatagram.from_wire") /\ res.ok) =>
           (res.val.errmsg = <<>> <=> (res.val.errorcode = 0 /\ WireText(arg.payload) = <<>>))
    /\ (Called("ERRORDatagram.from_code") /\ res.ok) =>
           (res.val.errmsg = <<>> <=>
                \/ arg.errmsg = <<>> /\ arg.errorcode = 0
                \/ arg.errmsg = << <<>> >>)

\* code 0 decoded from a payload with no text: the errmsg is empty
C2_Witness ==
    /\ Called("ERRORDatagram.from_wire")
    /\ arg.payload = <<0, 0>>
    /\ res.ok
    /\ res.val.errmsg = <<>>

ErrorPaths == FromWireOrCode \cup {"ERRORDatagram"}
\* the error code a call asks for
AskedCode ==
    IF fn = "ERRORDatagram.from_wire" THEN BE16(arg.payload[1], arg.payload[2])
    ELSE arg.errorcode
HasCode == fn = "ERRORDatagram.from_wire" => Len(arg.payload) >= 2

\* C4 as stated: by every construction path (from_wire, from_code, direct
\* construction) an Error message has a code in 0..7, and a code outside is
\* refused with InvalidErrorcodeError(code).
C4_AlwaysValidated ==
    (pc # "idle" /\ fn \in ErrorPaths /\ HasCode) =>
        IF AskedCode \in 0..7 THEN res.ok => res.val.errorcode \in 0..7
        ELSE res = [ok |-> FALSE,
                    exc |-> [cls |-> "InvalidErrorcodeError", args |-> <<AskedCode>>]]

\* C4 amended: an Error message returned by from_wire or from_code has a code
\* in 0..7, and both refuse a code outside with InvalidErrorcodeError(code);
\* direct construction ERRORDatagram(errorcode, errmsg) validates nothing and
\* stores the code it is given, so to_wire can be reached with a code outside
\* the registry.
C4_ValidatedByFactories ==
    /\ (pc # "idle" /\ fn \in FromWireOrCode /\ HasCode) =>
           IF AskedCode \in 0..7 THEN res.ok /\ res.val.errorcode = AskedCode
           ELSE res = [ok |-> FALSE,
                       exc |-> [cls |-> "InvalidErrorcodeError", args |-> <<AskedCode>>]]
    /\ Called("ERRORDatagram") =>
           /\ res.ok
           /\ res.val.errorcode = arg.errorcode
           /\ pc \in {"serialized", "redecoded"} =>
                  SubSeq(wire, 3, 4) = <<arg.errorcode \div 256, arg.errorcode % 256>>

\* a directly constructed message with code 13 was serialized
C4_Witness ==
    /\ Called("ERRORDatagram")
    /\ pc = "serialized"
    /\ res.val.errorcode = 13
    /\ SubSeq(wire, 1, 4) = <<0, 5, 0, 13>>

---------------------------------------------------------------------------
(* The factory                                                             *)

\* C6: TFTPDatagramFactory(opcode, payload) fails with
\* InvalidOpcodeError(opcode) (the spec's UnknownOpcodeError) for every opcode
\* outside 1..5 whatever the payload; for an opcode in 1..5 its outcome is the
\* outcome of that class's from_wire on the payload, a failure included.
C6_Factory ==
    Called("TFTPDatagramFactory") =>
        LET p == arg.payload
        IN  CASE arg.opcode = 1 -> res = RQDatagram_from_wire("RRQDatagram", p)
              [] arg.opcode = 2 -> res = RQDatagram_from_wire("WRQDatagram", p)
              [] arg.opcode = 3 -> res = DATADatagram_from_wire(p)
              [] arg.opcode = 4 -> res = ACKDatagram_from_wire(p)
              [] arg.opcode = 5 -> res = ERRORDatagram_from_wire(p)
              [] OTHER -> res = [ok |-> FALSE,
                                 exc |-> [cls |-> "InvalidOpcodeError",
                                          args |-> <<arg.opcode>>]]

\* the factory lets the InvalidErrorcodeError of ERRORDatagram.from_wire through
C6_Witness ==
    /\ Called("TFTPDatagramFactory")
    /\ arg.opcode = 5
    /\ ~res.ok
    /\ res.exc.cls = "InvalidErrorcodeError"

---------------------------------------------------------------------------
(* Round trips                                                             *)

NoNul(s) == ~HasNul(s)
\* the datagrams whose fields the wire format can carry
Representable(d) ==
    CASE d.cls \in {"RRQDatagram", "WRQDatagram"} -> NoNul(d.filename) /\ NoNul(d.mode)
      [] d.cls \in {"DATADatagram", "ACKDatagram"} -> TRUE
      [] d.cls = "ERRORDatagram" ->
             /\ d.errorcode \in 0..7
             /\ NoNul(d.errmsg)
             /\ d.errmsg = <<>> => d.errorcode = 0
RoundTrips == back.ok /\ back.val = res.val

\* C1 as stated: every message constructed directly from typed fields decodes
\* from its to_wire() to a message of the same kind with equal fields.
C1_EveryMessage ==
    (pc = "redecoded" /\ fn \in Constructors) => RoundTrips

\* C1 amended: a message constructed directly from typed fields decodes from
\* its to_wire() to a message of the same kind with equal fields if and only
\* if: a request's filename and mode hold no NUL byte; an Error message's code
\* is in 0..7 and its errmsg holds no NUL byte and is empty only with code 0.
\* Data and Acknowledgment messages always do.
C1_RoundTrip ==
    (pc = "redecoded" /\ fn \in Constructors) => (RoundTrips <=> Representable(res.val))

\* a request constructed with an upper-case mode came back with equal fields
C1_Witness ==
    /\ pc = "redecoded"
    /\ fn = "RQDatagram"
    /\ arg.filename = <<65>>
    /\ arg.mode = <<65, 1>>
    /\ res.val.mode = <<97, 1>>
    /\ RoundTrips

\* C10: when a raw buffer decodes to a message M, decoding M.to_wire()
\* succeeds with a message of the same kind and equal fields, whose to_wire()
\* is M.to_wire() again.
C10_Canonical ==
    (pc = "redecoded" /\ fn = "decode") =>
        /\ back.ok
        /\ back.val = res.val
        /\ to_wire(back.val) = wire

\* the buffer decoded was not in canonical form: an Error message with bytes
\* after the first NUL of its text
C10_Witness ==
    /\ pc = "redecoded"
    /\ fn = "decode"
    /\ res.val.cls = "ERRORDatagram"
    /\ wire # arg.datagram
    /\ Len(arg.datagram) = 7
    /\ arg.datagram[5] # 0 /\ arg.datagram[6] = 0 /\ arg.datagram[7] # 0
    /\ back.ok

=============================================================================
